---- MODULE Spec2Model ----
(***************************************************************************)
(* A model of app.py: the Flask application that persists an uploaded      *)
(* audio file, runs Demucs on it, derives an instrumental with ffmpeg and  *)
(* serves the results from the outputs directory.                          *)
(*                                                                         *)
(* Texts that the code takes apart (the uploaded file name) are sequences  *)
(* of one-character strings.  Filesystem paths are sequences of path       *)
(* segments relative to BASE_DIR.  URL texts are the sequence obtained by  *)
(* splitting the text at "/", so "/outputs/u1/x.wav" is                    *)
(* <<"", "outputs", "u1", "x.wav">> and the bare token "u1" is <<"u1">>.   *)
(***************************************************************************)
EXTENDS Integers, Sequences, FiniteSets, TLC

VARIABLES
  dirs,    \* the directories that exist under BASE_DIR
  files,   \* the regular files under BASE_DIR: path -> content
  job,     \* one record per POST /api/upload request in flight or answered
  reply    \* the response to the latest GET /outputs/... or GET /api/health

vars == <<dirs, files, job, reply>>

\* Number of POST /api/upload requests, all of which may run concurrently.
NumJobs == 2

Slots == 1 .. NumJobs

\* The tokens uuid4().hex can return: one for each request.
Uids == {"u" \o ToString(i) : i \in Slots}

-----------------------------------------------------------------------------
(* Directory layout *)

BASE_DIR == <<>>
UPLOADS == <<"uploads">>
OUTPUTS == <<"outputs">>
STATIC == <<"static">>

STEMS == <<"vocals", "drums", "bass", "other">>

StemSet == {STEMS[i] : i \in 1 .. Len(STEMS)}

WavName(stem) == stem \o ".wav"

-----------------------------------------------------------------------------
(* Text helpers *)

RECURSIVE Str(_)
\* The text made of the characters of s.
Str(s) == IF s = <<>> THEN "" ELSE Head(s) \o Str(Tail(s))

\* str.lower on one character.
LowerChar(c) ==
  CASE c = "M" -> "m"
    [] c = "P" -> "p"
    [] c = "W" -> "w"
    [] c = "A" -> "a"
    [] c = "V" -> "v"
    [] c = "G" -> "g"
    [] c = "O" -> "o"
    [] OTHER -> c

Lower(s) == [i \in 1 .. Len(s) |-> LowerChar(s[i])]

\* str.rfind as a 1-based index, 0 when c does not occur.
RFind(s, c) ==
  LET hits == {i \in 1 .. Len(s) : s[i] = c}
  IN IF hits = {} THEN 0 ELSE CHOOSE i \in hits : \A k \in hits : k <= i

\* os.path.splitext(p)[1]: the text from the last dot of the last path
\* component, unless that component has nothing but dots before it.
SplitExt(p) ==
  LET sepIndex == RFind(p, "/")
      dotIndex == RFind(p, ".")
  IN IF dotIndex > sepIndex
        /\ \E i \in (sepIndex + 1) .. (dotIndex - 1) : p[i] # "."
     THEN SubSeq(p, dotIndex, Len(p))
     ELSE <<>>

ALLOWED_EXT ==
  { <<".", "m", "p", "3">>, <<".", "w", "a", "v">>, <<".", "m", "4", "a">>,
    <<".", "f", "l", "a", "c">>, <<".", "o", "g", "g">>, <<".", "a", "a", "c">> }

-----------------------------------------------------------------------------
(* Filesystem helpers *)

IsPrefix(d, p) == Len(d) <= Len(p) /\ SubSeq(p, 1, Len(d)) = d

\* Path.exists for a path without ".." segments, in the filesystem <<ds, fs>>.
Exists(ds, fs, p) == p \in ds \/ p \in DOMAIN fs

\* The file map with path p holding content c.
WriteFile(fs, p, c) == (p :> c) @@ fs

\* The file map without the paths under d.
PruneFiles(fs, d) == [p \in {q \in DOMAIN fs : ~IsPrefix(d, q)} |-> fs[p]]

PruneDirs(ds, d) == {q \in ds : ~IsPrefix(d, q)}

\* shutil.copy2(src, dst): dst holds the content of src.
Copy2(fs, src, dst) == WriteFile(fs, dst, fs[src])

-----------------------------------------------------------------------------
(* The requests clients send *)

Name(t) == CASE t = "song.mp3" -> <<"s", "o", "n", "g", ".", "m", "p", "3">>
             [] t = "a.MP3" -> <<"a", ".", "M", "P", "3">>
             [] t = "a.wav" -> <<"a", ".", "w", "a", "v">>
             [] t = "a.m4a" -> <<"a", ".", "m", "4", "a">>
             [] t = "a.flac" -> <<"a", ".", "f", "l", "a", "c">>
             [] t = "a.Ogg" -> <<"a", ".", "O", "g", "g">>
             [] t = "a.aac" -> <<"a", ".", "a", "a", "c">>
             [] t = "x.y.wav" -> <<"x", ".", "y", ".", "w", "a", "v">>
             [] t = "clip.xyz" -> <<"c", "l", "i", "p", ".", "x", "y", "z">>
             [] t = "a.mp3.xyz" -> <<"a", ".", "m", "p", "3", ".", "x", "y", "z">>
             [] t = "mp3" -> <<"m", "p", "3">>
             [] t = ".mp3" -> <<".", "m", "p", "3">>
             [] t = "..ogg" -> <<".", ".", "o", "g", "g">>
             [] t = "a.mp3/b" -> <<"a", ".", "m", "p", "3", "/", "b">>
             [] t = "d/.wav" -> <<"d", "/", ".", "w", "a", "v">>
             [] t = "a.mp" -> <<"a", ".", "m", "p">>
             [] t = "a." -> <<"a", ".">>
             [] OTHER -> <<>>

FileNames ==
  { Name(t) : t \in { "", "song.mp3", "a.MP3", "a.wav", "a.m4a", "a.flac", "a.Ogg",
                      "a.aac", "x.y.wav", "clip.xyz", "a.mp3.xyz", "mp3", ".mp3",
                      "..ogg", "a.mp3/b", "d/.wav", "a.mp", "a." } }

\* request.files.get("file"): absent, or a file with a name.
Requests ==
  {[present |-> FALSE, filename |-> <<>>]}
    \cup {[present |-> TRUE, filename |-> f] : f \in FileNames}

NoRequest == [present |-> FALSE, filename |-> <<"-">>]

NoResponse == [status |-> 0, body |-> [detail |-> ""]]

Detail(code, text) == [status |-> code, body |-> [detail |-> text]]

\* What one run of the Demucs process does: its exit code, how much of
\* out_dir/htdemucs/<track>/ it creates, and the stem files it writes there.
DemucsRuns ==
  { d \in [rc : {0, 1}, layout : {"none", "model", "track"}, stems : SUBSET StemSet] :
      d.stems # {} => d.layout = "track" }

NoDemucs == [rc |-> -1, layout |-> "-", stems |-> {}]

\* What launching "ffmpeg -version" does.
FfmpegProbes == {"missing", "noexec", "rc0", "rc1"}

\* What the amix run of ffmpeg does: exit 0 with the mix written, or a
\* non-zero exit with nothing or with a truncated file at the target.
FfmpegMixes == {"mixed", "failed", "failed_partial"}

\* Whether copying the upload beside the results succeeds or raises.
CopyRuns == {"ok", "raise"}

\* A request's record: pc is the handler's position; req, uid, ext, sub,
\* err are its locals file, uid, ext, out_subdir and the caught exception;
\* resp is the response once sent; calls are the external programs it ran;
\* dm, mix, cp are what Demucs, the ffmpeg mix and the copy of the
\* original did, ver is what _ffmpeg_exists() did.
IdleJob ==
  [pc |-> "idle", req |-> NoRequest, uid |-> "", ext |-> "", sub |-> <<>>,
   err |-> "", resp |-> NoResponse, calls |-> {},
   dm |-> NoDemucs, ver |-> "-", mix |-> "-", cp |-> "-"]

NoReply ==
  [route |-> "-", req |-> <<>>, status |-> 0, body |-> [detail |-> ""],
   served |-> <<>>, after |-> {}]

\* input_path = UPLOADS / f"{uid}{ext}"
InputPath(j) == UPLOADS \o <<j.uid \o j.ext>>

\* One output directory used by every job.
SharedJobDir(j) == OUTPUTS \o <<"job">>

\* job_dir = OUTPUTS / uid
JobDir(j) == OUTPUTS \o <<j.uid>>

\* uuid.uuid4().hex: a token no other request has been given.
Uuid4 == Uids \ {job[t].uid : t \in Slots}

\* Lines 13-20: the three directories made at start, and the front-end page.
InitDirs == {BASE_DIR, UPLOADS, OUTPUTS, STATIC}

InitFiles == (STATIC \o <<"index.html">>) :> "page"

Init ==
  /\ dirs = InitDirs
  /\ files = InitFiles
  /\ job = [s \in Slots |-> IdleJob]
  /\ reply = NoReply

-----------------------------------------------------------------------------
(* POST /api/upload *)

\* An extension taken without lower-casing it.
ExtCaseSensitive(filename) == SplitExt(filename)

\* ext = os.path.splitext(file.filename)[1].lower(), as characters.
Ext(filename) == Lower(SplitExt(filename))

\* Lines 107-117: validate the file, draw the job id, persist the upload.
UploadReceive(s, requests) ==
  /\ job[s].pc = "idle"
  /\ \E r \in requests :
       IF ~r.present \/ r.filename = <<>>
       THEN /\ job' = [job EXCEPT ![s].pc = "done", ![s].req = r,
                                  ![s].resp = Detail(400, "No file uploaded.")]
            /\ UNCHANGED <<dirs, files, reply>>
       ELSE IF Ext(r.filename) \notin ALLOWED_EXT
       THEN /\ job' = [job EXCEPT ![s].pc = "done", ![s].req = r,
                                  ![s].resp = Detail(400, "Unsupported file format.")]
            /\ UNCHANGED <<dirs, files, reply>>
       ELSE \E u \in Uuid4 :
            LET j == [job[s] EXCEPT !.pc = "mkdir", !.req = r, !.uid = u,
                                    !.ext = Str(Ext(r.filename))]
            IN /\ job' = [job EXCEPT ![s] = j]
               /\ files' = WriteFile(files, InputPath(j), "audio")
               /\ UNCHANGED <<dirs, reply>>

\* Lines 119-120: job_dir.mkdir(parents=True, exist_ok=True).
UploadMkdir(s) ==
  /\ job[s].pc = "mkdir"
  /\ dirs' = dirs \cup {OUTPUTS, JobDir(job[s])}
  /\ job' = [job EXCEPT ![s].pc = "demucs"]
  /\ UNCHANGED <<files, reply>>

\* The folder Demucs names after the input file: Path(input_path).stem,
\* which for uploads/<uid><ext> is the uid.
DemucsTrack(j) == j.uid

\* The directories and files one Demucs run leaves under out_dir.
DemucsDirs(ds, out_dir, track, d) ==
  ds \cup (IF d.layout \in {"model", "track"} THEN {out_dir \o <<"htdemucs">>} ELSE {})
     \cup (IF d.layout = "track" THEN {out_dir \o <<"htdemucs", track>>} ELSE {})

RECURSIVE WriteAll(_, _, _)
WriteAll(fs, dir, names) ==
  IF names = {} THEN fs
  ELSE LET n == CHOOSE x \in names : TRUE
       IN WriteAll(WriteFile(fs, dir \o <<WavName(n)>>, n), dir, names \ {n})

DemucsFiles(fs, out_dir, track, d) ==
  WriteAll(fs, out_dir \o <<"htdemucs", track>>, d.stems)

\* [p for p in model_dir.iterdir() if p.is_dir()]
Candidates(ds, model_dir) ==
  {p \in ds : Len(p) = Len(model_dir) + 1 /\ IsPrefix(model_dir, p)}

\* run_demucs(input_path, job_dir), lines 54-81, with the process it runs.
RunDemucs(s, runs) ==
  /\ job[s].pc = "demucs"
  /\ \E d \in runs :
       LET out_dir == JobDir(job[s])
           model_dir == out_dir \o <<"htdemucs">>
           ds == DemucsDirs(dirs, out_dir, DemucsTrack(job[s]), d)
           fs == DemucsFiles(files, out_dir, DemucsTrack(job[s]), d)
           ran == [job[s] EXCEPT !.dm = d, !.calls = @ \cup {"demucs"}]
           raise(msg) == job' = [job EXCEPT ![s] = [ran EXCEPT !.pc = "except", !.err = msg]]
       IN /\ dirs' = ds
          /\ files' = fs
          /\ IF d.rc # 0 THEN raise("Demucs failed.")
             ELSE IF ~Exists(ds, fs, model_dir) THEN raise("Demucs output not found.")
             ELSE IF Candidates(ds, model_dir) = {}
             THEN raise("Demucs didn't produce a track folder.")
             ELSE \E c \in Candidates(ds, model_dir) :
                    job' = [job EXCEPT ![s] = [ran EXCEPT !.pc = "stems", !.sub = c]]
  /\ UNCHANGED reply

\* Lines 125-132: the four stems must exist; the first absent one is named.
CheckStems(s) ==
  /\ job[s].pc = "stems"
  /\ LET absent == {i \in 1 .. Len(STEMS) :
                      ~Exists(dirs, files, job[s].sub \o <<WavName(STEMS[i])>>)}
         first == CHOOSE i \in absent : \A k \in absent : i <= k
     IN IF absent # {}
        THEN job' = [job EXCEPT ![s].pc = "except",
                                ![s].err = "Missing expected stem: " \o WavName(STEMS[first])]
        ELSE job' = [job EXCEPT ![s].pc = "mix"]
  /\ UNCHANGED <<dirs, files, reply>>

\* _ffmpeg_exists(), lines 46-51, given what launching ffmpeg does:
\* "yes", "no", or "raise" when the launch error is not FileNotFoundError.
FfmpegExists(probe) ==
  CASE probe = "missing" -> "no"
    [] probe = "noexec" -> "raise"
    [] OTHER -> "yes"

\* A mixer step without the fallback copy after a non-zero exit.
MixFilesNoFallback(fs, other, instrumental_out, m) ==
  CASE m = "mixed" -> WriteFile(fs, instrumental_out, "mix")
    [] m = "failed" -> fs
    [] OTHER -> WriteFile(fs, instrumental_out, "partial")

\* The files after make_instrumental(drums, bass, other, instrumental_out)
\* ran ffmpeg with outcome m.
MixFiles(fs, other, instrumental_out, m) ==
  CASE m = "mixed" -> WriteFile(fs, instrumental_out, "mix")
    [] m = "failed" -> Copy2(fs, other, instrumental_out)
    [] OTHER -> Copy2(WriteFile(fs, instrumental_out, "partial"), other, instrumental_out)

\* Lines 135-136 with make_instrumental, lines 84-102.
MakeInstrumental(s) ==
  /\ job[s].pc = "mix"
  /\ \E probe \in FfmpegProbes :
       LET other == job[s].sub \o <<"other.wav">>
           instrumental == job[s].sub \o <<"instrumental.wav">>
           probed == [job[s] EXCEPT !.ver = FfmpegExists(probe),
                                    !.calls = @ \cup {"ffmpeg -version"}]
       IN CASE FfmpegExists(probe) = "raise" ->
                 /\ job' = [job EXCEPT ![s] = [probed EXCEPT !.pc = "except",
                                   !.err = "[Errno 13] Permission denied: 'ffmpeg'"]]
                 /\ UNCHANGED files
            [] FfmpegExists(probe) = "no" ->
                 /\ job' = [job EXCEPT ![s] = [probed EXCEPT !.pc = "copy"]]
                 /\ files' = Copy2(files, other, instrumental)
            [] OTHER ->
                 \E m \in FfmpegMixes :
                   /\ job' = [job EXCEPT ![s] = [probed EXCEPT !.pc = "copy", !.mix = m,
                                                   !.calls = @ \cup {"ffmpeg"}]]
                   /\ files' = MixFiles(files, other, instrumental, m)
  /\ UNCHANGED <<dirs, reply>>

\* A URL text without its leading "/".
UrlRelative(rel, name) == <<"outputs">> \o rel \o <<name>>

\* The text f"/outputs/{rel.as_posix()}/{name}" split at "/".
Url(rel, name) == <<"", "outputs">> \o rel \o <<name>>

\* A success body whose stem URLs leave out the path below the job folder.
ResultBodyFlat(j) ==
  [id |-> <<j.uid>>,
   original |-> <<"", "outputs", j.uid, "original" \o j.ext>>,
   vocals |-> Url(<<j.uid>>, "vocals.wav"),
   instrumental |-> Url(<<j.uid>>, "instrumental.wav"),
   drums |-> Url(<<j.uid>>, "drums.wav"),
   bass |-> Url(<<j.uid>>, "bass.wav"),
   other |-> Url(<<j.uid>>, "other.wav")]

\* Lines 144-155: the body of the success response.
ResultBody(j) ==
  LET rel == SubSeq(j.sub, Len(OUTPUTS) + 1, Len(j.sub))
  IN [id |-> <<j.uid>>,
      original |-> <<"", "outputs", j.uid, "original" \o j.ext>>,
      vocals |-> Url(rel, "vocals.wav"),
      instrumental |-> Url(rel, "instrumental.wav"),
      drums |-> Url(rel, "drums.wav"),
      bass |-> Url(rel, "bass.wav"),
      other |-> Url(rel, "other.wav")]

\* Lines 139-155: copy the upload beside the results and answer.
CopyOriginal(s) ==
  /\ job[s].pc = "copy"
  /\ \E c \in CopyRuns :
       IF c = "ok"
       THEN /\ files' = Copy2(files, InputPath(job[s]),
                               JobDir(job[s]) \o <<"original" \o job[s].ext>>)
            /\ job' = [job EXCEPT ![s].pc = "done", ![s].cp = c,
                         ![s].resp = [status |-> 200, body |-> ResultBody(job[s])]]
       ELSE /\ job' = [job EXCEPT ![s].pc = "except", ![s].cp = c,
                                  ![s].err = "[Errno 28] No space left on device"]
            /\ UNCHANGED files
  /\ UNCHANGED <<dirs, reply>>

\* A cleanup that leaves the directories of the tree in place.
RmtreeDirsKept(ds, d) == ds

\* A cleanup that leaves the files of the tree in place.
RmtreeFilesKept(fs, d) == fs

\* shutil.rmtree(d, ignore_errors=True): the tree under d is gone.
RmtreeDirs(ds, d) == PruneDirs(ds, d)

RmtreeFiles(fs, d) == PruneFiles(fs, d)

\* Lines 156-158: remove the job directory and answer 500.
UploadExcept(s) ==
  /\ job[s].pc = "except"
  /\ dirs' = RmtreeDirs(dirs, JobDir(job[s]))
  /\ files' = RmtreeFiles(files, JobDir(job[s]))
  /\ job' = [job EXCEPT ![s].pc = "done", ![s].resp = Detail(500, job[s].err)]
  /\ UNCHANGED reply

\* One step of the handler of POST /api/upload for request s, with the
\* client's request drawn from requests and the Demucs run from runs.
Upload(s, requests, runs) ==
  \/ UploadReceive(s, requests)
  \/ UploadMkdir(s)
  \/ RunDemucs(s, runs)
  \/ CheckStems(s)
  \/ MakeInstrumental(s)
  \/ CopyOriginal(s)
  \/ UploadExcept(s)

-----------------------------------------------------------------------------
(* GET /outputs/<path:subpath> *)

Parent(p) == IF p = <<>> THEN p ELSE SubSeq(p, 1, Len(p) - 1)

RECURSIVE Walk(_, _, _)
\* The operating system's lookup of the segments segs from directory cur:
\* every segment is looked up in a directory that exists; ".." is its parent.
Walk(ds, cur, segs) ==
  IF segs = <<>> THEN [ok |-> TRUE, path |-> cur]
  ELSE IF cur \notin ds THEN [ok |-> FALSE, path |-> cur]
  ELSE IF Head(segs) = ".." THEN Walk(ds, Parent(cur), Tail(segs))
  ELSE Walk(ds, cur \o <<Head(segs)>>, Tail(segs))

\* full = OUTPUTS / subpath
FullPath(subpath) == OUTPUTS \o subpath

\* The ids of the uploads that were answered before a request arrived.
Answered == {job[s].uid : s \in {t \in Slots : job[t].pc = "done"}}

\* outputs_serve(subpath), lines 31-43: the response (body.detail is the
\* message or the file's content), the file it sends, and the uploads that
\* had been answered when it was computed.
ServeResult(ds, fs, subpath) ==
  LET at == Walk(ds, BASE_DIR, FullPath(subpath))
  IN IF ~at.ok \/ at.path \notin DOMAIN fs
     THEN [route |-> "outputs", req |-> subpath, status |-> 404,
           body |-> [detail |-> "File not found."], served |-> <<>>, after |-> Answered]
     ELSE [route |-> "outputs", req |-> subpath, status |-> 200,
           body |-> [detail |-> fs[at.path]], served |-> at.path, after |-> Answered]

\* The six result paths of a job under the outputs root, and its directory.
JobPaths(j) ==
  {<<j.uid>>, <<j.uid, "original" \o j.ext>>, <<j.uid, "htdemucs", j.uid, "instrumental.wav">>}
    \cup {<<j.uid, "htdemucs", j.uid, WavName(n)>> : n \in StemSet}

\* The subpaths clients ask for: what exists under the outputs root, the
\* result paths of every job, a missing file, and paths with ".." segments.
SubPaths ==
  {SubSeq(p, 2, Len(p)) : p \in {q \in dirs \cup DOMAIN files : IsPrefix(OUTPUTS, q) /\ Len(q) > 1}}
    \cup UNION {JobPaths(job[s]) : s \in {t \in Slots : job[t].uid # ""}}
    \cup {<<"..">> \o p : p \in {q \in DOMAIN files : ~IsPrefix(OUTPUTS, q)}}
    \cup {<<job[s].uid, "..", job[s].uid, "original" \o job[s].ext>> :
            s \in {t \in Slots : job[t].uid # ""}}
    \cup {<<"nope.wav">>, <<"nope", "..", "..", "static", "index.html">>}

OutputsServe ==
  /\ \E subpath \in SubPaths : reply' = ServeResult(dirs, files, subpath)
  /\ UNCHANGED <<dirs, files, job>>

-----------------------------------------------------------------------------
(* GET /api/health *)

\* What launching "python -m demucs -h" does.
DemucsProbes == {"launcherr", "rc0", "rc1"}

\* health(), lines 161-172.
HealthResult(d, f) ==
  IF FfmpegExists(f) = "raise"
  THEN [route |-> "health", req |-> <<d, f>>, status |-> 500,
        body |-> [detail |-> "Internal Server Error"], served |-> <<>>, after |-> {}]
  ELSE [route |-> "health", req |-> <<d, f>>, status |-> 200,
        body |-> [status |-> "ok", demucs |-> (d = "rc0"),
                  ffmpeg |-> (FfmpegExists(f) = "yes")],
        served |-> <<>>, after |-> {}]

Health ==
  /\ \E d \in DemucsProbes, f \in FfmpegProbes : reply' = HealthResult(d, f)
  /\ UNCHANGED <<dirs, files, job>>

-----------------------------------------------------------------------------
(* Specifications *)

\* One upload with every request and every Demucs run, with downloads and
\* health checks arriving at any moment of it.
Next ==
  \/ Upload(1, Requests, DemucsRuns)
  \/ OutputsServe
  \/ Health

Spec == Init /\ [][Next]_vars

\* The requests and Demucs runs of the concurrent specification.
ConcRequests ==
  {[present |-> TRUE, filename |-> Name(t)] : t \in {"song.mp3", "clip.xyz"}}

ConcDemucsRuns ==
  { d \in DemucsRuns :
      \/ d.rc = 0 /\ d.layout = "track" /\ d.stems \in {StemSet, StemSet \ {"bass"}}
      \/ d.rc = 1 /\ d.layout = "track" /\ d.stems = {"vocals"}
      \/ d.rc = 0 /\ d.layout = "model" }

\* All uploads running concurrently, their steps interleaved in any order.
NextConc == \E s \in Slots : Upload(s, ConcRequests, ConcDemucsRuns)

SpecConc == Init /\ [][NextConc]_vars

-----------------------------------------------------------------------------
(* Properties *)

\* The request of j passed validation and a step of its pipeline failed:
\* Demucs exited non-zero or left no complete track folder, launching the
\* mixer raised, or the copy of the original raised.
PipelineFailed(j) ==
  \/ j.dm # NoDemucs /\ (j.dm.rc # 0 \/ j.dm.layout # "track" \/ j.dm.stems # StemSet)
  \/ j.ver = "raise"
  \/ j.cp = "raise"

\* Nothing exists at or under outputs/<uid>.
JobDirGone(j) ==
  \A p \in dirs \cup DOMAIN files : ~IsPrefix(OUTPUTS \o <<j.uid>>, p)

\* The latest download was requested under outputs/<uid>/ after j was answered.
AskedAfter(j) ==
  /\ reply.route = "outputs"
  /\ j.uid \in reply.after
  /\ reply.req # <<>>
  /\ Head(reply.req) = j.uid

SixFiles(j) ==
  /\ \E d \in dirs :
       /\ Len(d) = 4
       /\ IsPrefix(OUTPUTS \o <<j.uid, "htdemucs">>, d)
       /\ \A n \in StemSet \cup {"instrumental"} : (d \o <<n \o ".wav">>) \in DOMAIN files
  /\ (OUTPUTS \o <<j.uid, "original" \o j.ext>>) \in DOMAIN files

\* C2: an upload answered 200 has its six result files on disk, whichever
\* way the instrumental was made.
C2_SuccessHasSixFiles ==
  \A s \in Slots :
    job[s].pc = "done" /\ job[s].resp.status = 200 => SixFiles(job[s])

\* An upload was answered 200 after the mixer had exited non-zero.
C2_Witness ==
  \E s \in Slots :
    /\ job[s].pc = "done"
    /\ job[s].resp.status = 200
    /\ job[s].mix = "failed"

AcceptedWords ==
  { <<"m", "p", "3">>, <<"w", "a", "v">>, <<"m", "4", "a">>,
    <<"f", "l", "a", "c">>, <<"o", "g", "g">>, <<"a", "a", "c">> }

\* The request carries a file with a non-empty name that is a name part,
\* a dot and an accepted extension in any case.
Acceptable(r) ==
  /\ r.present
  /\ r.filename # <<>>
  /\ \E k \in 1 .. Len(r.filename) :
       /\ r.filename[k] = "."
       /\ Lower(SubSeq(r.filename, k + 1, Len(r.filename))) \in AcceptedWords
       /\ \E i \in 1 .. (k - 1) :
            /\ r.filename[i] \notin {".", "/"}
            /\ \A m \in i .. (k - 1) : r.filename[m] # "/"

\* C3: a received upload is accepted exactly when its name is non-empty and
\* has an accepted extension in any case; otherwise it is answered 400, no
\* external program was run and the filesystem is as it was at start.
C3_AcceptedExactlyWhenSupported ==
  \A s \in Slots :
    job[s].req # NoRequest =>
      IF Acceptable(job[s].req)
      THEN job[s].uid # "" /\ job[s].resp.status # 400
      ELSE /\ job[s].pc = "done"
           /\ job[s].resp.status = 400
           /\ job[s].calls = {}
           /\ dirs = InitDirs
           /\ files = InitFiles

\* clip.xyz was uploaded and refused as an unsupported format.
C3_Witness ==
  \E s \in Slots :
    /\ job[s].req = [present |-> TRUE, filename |-> Name("clip.xyz")]
    /\ job[s].resp = Detail(400, "Unsupported file format.")

ResultKeys == {"id", "original", "vocals", "instrumental", "drums", "bass", "other"}

\* The text v, split at "/", begins with "/outputs/".
BeginsWithOutputs(v) == Len(v) >= 3 /\ v[1] = "" /\ v[2] = "outputs"

\* C6 as claimed: a success body has exactly the seven keys and every
\* value begins with /outputs/.
C6_EveryValueUnderOutputs ==
  \A s \in Slots :
    job[s].pc = "done" /\ job[s].resp.status = 200 =>
      /\ DOMAIN job[s].resp.body = ResultKeys
      /\ \A k \in ResultKeys : BeginsWithOutputs(job[s].resp.body[k])

\* C6 amended: a success body has exactly the seven keys, the value of id
\* is the bare job id, and every other value begins with /outputs/.
C6_KeysAndUrls ==
  \A s \in Slots :
    job[s].pc = "done" /\ job[s].resp.status = 200 =>
      /\ DOMAIN job[s].resp.body = ResultKeys
      /\ job[s].resp.body["id"] = <<job[s].uid>>
      /\ \A k \in ResultKeys \ {"id"} : BeginsWithOutputs(job[s].resp.body[k])

\* An upload was answered 200.
C6_Witness ==
  \E s \in Slots :
    /\ job[s].pc = "done"
    /\ job[s].resp.status = 200
    /\ job[s].resp.body["id"] = <<job[s].uid>>

\* The uploaded file's name without its extension, as a text.
UploadedBaseName(j) ==
  Str(SubSeq(j.req.filename, 1, Len(j.req.filename) - Len(SplitExt(j.req.filename))))

ResultNames == StemSet \cup {"instrumental"}

\* The latest download was requested after j was answered, at one of the
\* stem or instrumental URLs of j's response.
AskedResultUrl(j) ==
  /\ reply.route = "outputs"
  /\ j.uid \in reply.after
  /\ \E n \in ResultNames : j.resp.body[n] = <<"", "outputs">> \o reply.req

\* C7 as claimed: the stem URLs of a success body are
\* /outputs/<id>/htdemucs/<base name of the uploaded file>/<stem>.wav, the
\* instrumental is beside them, and a download there is answered 200.
C7_TrackIsUploadedName ==
  \A s \in Slots :
    job[s].pc = "done" /\ job[s].resp.status = 200 =>
      /\ \A n \in ResultNames :
           job[s].resp.body[n] =
             <<"", "outputs", job[s].uid, "htdemucs", UploadedBaseName(job[s]), n \o ".wav">>
      /\ AskedResultUrl(job[s]) => reply.status = 200

\* C7 amended: the stem URLs of a success body are
\* /outputs/<id>/htdemucs/<id>/<stem>.wav, the track folder being named
\* after the persisted upload <id><ext>; the instrumental is beside them,
\* and a download there is answered 200 with that file.
C7_TrackIsJobId ==
  \A s \in Slots :
    job[s].pc = "done" /\ job[s].resp.status = 200 =>
      /\ \A n \in ResultNames :
           job[s].resp.body[n] =
             <<"", "outputs", job[s].uid, "htdemucs", job[s].uid, n \o ".wav">>
      /\ AskedResultUrl(job[s]) =>
           /\ reply.status = 200
           /\ reply.served = OUTPUTS \o reply.req

\* song.mp3 was uploaded and answered 200, and the instrumental URL of the
\* answer was then downloaded.
C7_Witness ==
  \E s \in Slots :
    /\ job[s].pc = "done"
    /\ job[s].resp.status = 200
    /\ job[s].req.filename = Name("song.mp3")
    /\ job[s].mix = "mixed"
    /\ reply.route = "outputs"
    /\ job[s].uid \in reply.after
    /\ job[s].resp.body["instrumental"] = <<"", "outputs">> \o reply.req
    /\ reply.status = 200
    /\ reply.body.detail = "mix"

\* The mixer could not be launched, or its mix run exited non-zero.
MixerUnavailable(j) ==
  j.ver \in {"no", "raise"} \/ j.mix \in {"failed", "failed_partial"}

\* C4: when the mixer is not reachable or its mix run exits non-zero, the
\* instrumental file holds the content of the other stem once
\* make_instrumental returns, and the job does not fail for that.
C4_FallbackCopiesOther ==
  \A s \in Slots :
    MixerUnavailable(job[s]) =>
      /\ job[s].err = "" \/ job[s].cp = "raise"
      /\ job[s].pc = "copy" =>
           files[job[s].sub \o <<"instrumental.wav">>] = files[job[s].sub \o <<"other.wav">>]

\* C8: a health check is answered 200 with status "ok" and two booleans,
\* demucs telling whether its help run exited zero and ffmpeg whether the
\* mixer could be launched, whatever the two probes do.
C8_HealthNeverFails ==
  reply.route = "health" =>
    /\ reply.status = 200
    /\ reply.body.status = "ok"
    /\ reply.body.demucs = (reply.req[1] = "rc0")
    /\ reply.body.ffmpeg = (reply.req[2] \in {"rc0", "rc1"})

\* C10: a download is answered with a file only when the path resolves to
\* a file inside the outputs root, and otherwise with 404 "File not found.".
C10_ServesOnlyInsideRoot ==
  reply.route = "outputs" =>
    IF reply.status = 200
    THEN IsPrefix(OUTPUTS, reply.served)
    ELSE reply.status = 404 /\ reply.body = [detail |-> "File not found."]

\* Path p belongs to job j: its persisted upload, or outputs/<uid> and below.
Owns(j, p) ==
  /\ j.uid # ""
  /\ p = UPLOADS \o <<j.uid \o j.ext>> \/ IsPrefix(OUTPUTS \o <<j.uid>>, p)

\* Path p is the same before and after the step.
SamePath(p) ==
  /\ p \in dirs <=> p \in dirs'
  /\ p \in DOMAIN files <=> p \in DOMAIN files'
  /\ p \in DOMAIN files /\ p \in DOMAIN files' => files[p] = files'[p]

\* A step of one request changes only paths that belong to it.
OwnPathsOnly ==
  \A s \in Slots :
    job'[s] # job[s] =>
      \A p \in dirs \cup dirs' \cup DOMAIN files \cup DOMAIN files' :
        SamePath(p) \/ Owns(job'[s], p)

\* An answered request has the result its own inputs give when run alone.
ResultAlone(j) ==
  j.pc = "done" =>
    IF ~Acceptable(j.req) THEN j.resp.status = 400
    ELSE IF PipelineFailed(j) THEN j.resp.status = 500 /\ JobDirGone(j)
    ELSE /\ j.resp.status = 200
         /\ SixFiles(j)
         /\ \A n \in StemSet : files[OUTPUTS \o <<j.uid, "htdemucs", j.uid, n \o ".wav">>] = n
         /\ files[OUTPUTS \o <<j.uid, "htdemucs", j.uid, "instrumental.wav">>]
              = (IF j.mix = "mixed" THEN "mix" ELSE "other")
         /\ files[OUTPUTS \o <<j.uid, "original" \o j.ext>>] = "audio"

\* C9: with uploads running concurrently under distinct ids, every step of
\* a request changes only its own upload file and the tree under its own
\* output directory, and each answered request has the result of running
\* alone on its inputs.
C9_JobsIsolated ==
  [][OwnPathsOnly /\ \A s \in Slots : ResultAlone(job[s])']_vars

\* One upload failed after Demucs had written files and was cleaned up,
\* while another upload holds its results on disk.
C9_Witness ==
  \E s, t \in Slots :
    /\ s # t
    /\ job[s].pc = "done"
    /\ PipelineFailed(job[s])
    /\ job[s].dm.stems # {}
    /\ job[t].pc = "done"
    /\ job[t].resp.status = 200
    /\ SixFiles(job[t])

====
